---- MODULE Spec2Model ----
(***************************************************************************)
(* proto-break: detection of breaking changes between two versions of a    *)
(* protobuf schema file (src/main.go).                                     *)
(*                                                                         *)
(* A descriptor tree is a record                                           *)
(*   file    = [package, messages, enums, services]                        *)
(*   message = [name, fields, messages, enums]                             *)
(*   field   = [name, number, kind, cardinality, typeName]                 *)
(*   enum    = [name, values],  value = [name, number]                     *)
(*   service = [name, methods]                                             *)
(*   method  = [name, input, output, clientStreaming, serverStreaming]     *)
(* with every list a sequence in declaration order.  A Go map is a         *)
(* function whose DOMAIN is the key set; ranging over a Go map visits the  *)
(* keys in an order the runtime picks, which the comparators take as the   *)
(* parameter "order".  A finding is the record of the verb and of the      *)
(* arguments of the fmt.Sprintf call that renders it.                      *)
(***************************************************************************)
EXTENDS Integers, Sequences, FiniteSets, TLC

VARIABLES
    prevFile,               \* prevFileDesc of compareProtoFile
    currFile,               \* currFileDesc of compareProtoFile
    allBreakingChanges,     \* allBreakingChanges of compareProtoFile
    pc,                     \* position of the program
    files,                  \* the .proto files of the two snapshots (git, disk)
    commitOK,               \* whether git rev-parse --verify accepts the commit
    modifiedProtoFiles,     \* result of getModifiedProtoFiles
    next,                   \* index of main's loop over modifiedProtoFiles
    hasBreakingChanges,     \* hasBreakingChanges of main
    output,                 \* what main printed per file
    tmpFiles,               \* temporary files that exist on disk
    exitCode                \* exit status of the process, -1 while running

vars == <<prevFile, currFile, allBreakingChanges, pc, files, commitOK,
          modifiedProtoFiles, next, hasBreakingChanges, output, tmpFiles,
          exitCode>>

runVars == <<files, commitOK, modifiedProtoFiles, next, hasBreakingChanges,
             output, tmpFiles, exitCode>>

-----------------------------------------------------------------------------
(* Bounds of the model *)

MaxFieldNumber == 2     \* field numbers are 1..MaxFieldNumber
MaxValueNumber == 1     \* enum value numbers are 0..MaxValueNumber
MaxDecls == 3           \* declarations (messages, enums, services) per tree
MaxFiles == 2           \* files of one run

-----------------------------------------------------------------------------
(* Generic helpers *)

RECURSIVE Flatten(_)
Flatten(seqs) ==
    IF seqs = <<>> THEN <<>> ELSE Head(seqs) \o Flatten(Tail(seqs))

Range(s) == {s[i] : i \in DOMAIN s}

\* m[k] = v of a Go map
Put(m, k, v) == [x \in (DOMAIN m) \cup {k} |-> IF x = k THEN v ELSE m[x]]

EmptyMap == [x \in {} |-> 0]

\* the orders in which a range over a Go map with key set S may visit it
Orders(S) ==
    {o \in [1..Cardinality(S) -> S] : \A i, j \in DOMAIN o : o[i] = o[j] => i = j}

\* number of elements of sequence s that satisfy P
Count(s, P(_)) == Cardinality({i \in DOMAIN s : P(s[i])})

\* %v of a bool
BoolStr(b) == IF b THEN "true" ELSE "false"

-----------------------------------------------------------------------------
(* Findings: one record per fmt.Sprintf format of main.go *)

Finding(kind, scope, name, number, from, to) ==
    [kind |-> kind, scope |-> scope, name |-> name, number |-> number,
     from |-> from, to |-> to]

\* "Field %q (number %d) was removed from message %q"
FieldRemoved(fieldName, fieldNumber, msgName) ==
    Finding("field_removed", msgName, fieldName, fieldNumber, "", "")

\* "Field renamed from %q to %q in message %q"
FieldRenamed(prevName, currName, msgName) ==
    Finding("field_renamed", msgName, "", 0, prevName, currName)

\* "Field %q type changed from %s to %s in message %q"
FieldTypeChanged(fieldName, prevKind, currKind, msgName) ==
    Finding("field_type_changed", msgName, fieldName, 0, prevKind, currKind)

\* "Field %q cardinality changed from repeated to singular in message %q"
FieldCardinalityChanged(fieldName, msgName) ==
    Finding("field_cardinality_changed", msgName, fieldName, 0, "", "")

\* "Message %q was removed"
MessageRemoved(msgName) == Finding("message_removed", "", msgName, 0, "", "")

\* "Enum %q was removed"
EnumRemoved(enumName) == Finding("enum_removed", "", enumName, 0, "", "")

\* "Enum value %q (number %d) was removed from enum %q"
EnumValueRemoved(valueName, valueNumber, enumName) ==
    Finding("enum_value_removed", enumName, valueName, valueNumber, "", "")

\* "Enum value renamed from %q to %q in enum %q"
EnumValueRenamed(prevName, currName, enumName) ==
    Finding("enum_value_renamed", enumName, "", 0, prevName, currName)

\* "Service %q was removed"
ServiceRemoved(serviceName) ==
    Finding("service_removed", "", serviceName, 0, "", "")

\* "Method %q was removed from service %q"
MethodRemoved(methodName, serviceName) ==
    Finding("method_removed", serviceName, methodName, 0, "", "")

\* "Method %q input type changed from %s to %s in service %q"
MethodInputChanged(methodName, prevInput, currInput, serviceName) ==
    Finding("method_input_changed", serviceName, methodName, 0, prevInput, currInput)

\* "Method %q output type changed from %s to %s in service %q"
MethodOutputChanged(methodName, prevOutput, currOutput, serviceName) ==
    Finding("method_output_changed", serviceName, methodName, 0, prevOutput, currOutput)

\* "Method %q client streaming changed from %v to %v in service %q"
MethodClientStreamingChanged(methodName, prevFlag, currFlag, serviceName) ==
    Finding("method_client_streaming_changed", serviceName, methodName, 0,
            BoolStr(prevFlag), BoolStr(currFlag))

\* "Method %q server streaming changed from %v to %v in service %q"
MethodServerStreamingChanged(methodName, prevFlag, currFlag, serviceName) ==
    Finding("method_server_streaming_changed", serviceName, methodName, 0,
            BoolStr(prevFlag), BoolStr(currFlag))

-----------------------------------------------------------------------------
(* compareFields *)

\* variant: the loop that builds the map stops one element early
ByNumber_SkipLast(items) ==
    [n \in {items[i].number : i \in (DOMAIN items) \ {Len(items)}} |->
        items[CHOOSE i \in (DOMAIN items) \ {Len(items)} : items[i].number = n]]

\* the map built by the loop "currFieldsByNumber[field.Number()] = field";
\* also used for the enum values of compareEnums (currValuesByNumber)
ByNumber(items) ==
    [n \in {items[i].number : i \in DOMAIN items} |->
        items[CHOOSE i \in DOMAIN items :
                /\ items[i].number = n
                /\ \A j \in DOMAIN items : j > i => items[j].number # n]]

\* "Check if field was renamed"
FieldRenameCheck(prevField, currField, msgName) ==
    IF prevField.name # currField.name
    THEN <<FieldRenamed(prevField.name, currField.name, msgName)>>
    ELSE <<>>

\* "Check field type changes": Kind() only, the referenced type is not read
FieldTypeCheck(prevField, currField, msgName) ==
    IF prevField.kind # currField.kind
    THEN <<FieldTypeChanged(prevField.name, prevField.kind, currField.kind, msgName)>>
    ELSE <<>>

\* variant: reports every change of cardinality, widening included
FieldCardinalityCheck_AnyChange(prevField, currField, msgName) ==
    IF prevField.cardinality # currField.cardinality
    THEN <<FieldCardinalityChanged(prevField.name, msgName)>>
    ELSE <<>>

\* "Check cardinality changes"
FieldCardinalityCheck(prevField, currField, msgName) ==
    IF /\ prevField.cardinality # currField.cardinality
       /\ prevField.cardinality = "repeated"
       /\ currField.cardinality # "repeated"
    THEN <<FieldCardinalityChanged(prevField.name, msgName)>>
    ELSE <<>>

\* variant: a field counts as kept when a current field has its name
FieldChanges_MatchByName(prevField, currFieldsByNumber, msgName) ==
    LET sameName == {n \in DOMAIN currFieldsByNumber :
                        currFieldsByNumber[n].name = prevField.name}
    IN  IF sameName = {}
        THEN <<FieldRemoved(prevField.name, prevField.number, msgName)>>
        ELSE LET currField == currFieldsByNumber[CHOOSE n \in sameName : TRUE]
             IN  FieldTypeCheck(prevField, currField, msgName)
                 \o FieldCardinalityCheck(prevField, currField, msgName)

\* variant: the three checks chained with else, the first that fires wins
FieldChanges_FirstCheckOnly(prevField, currFieldsByNumber, msgName) ==
    IF prevField.number \notin DOMAIN currFieldsByNumber
    THEN <<FieldRemoved(prevField.name, prevField.number, msgName)>>
    ELSE LET currField == currFieldsByNumber[prevField.number]
             renamed == FieldRenameCheck(prevField, currField, msgName)
             retyped == FieldTypeCheck(prevField, currField, msgName)
         IN  IF renamed # <<>> THEN renamed
             ELSE IF retyped # <<>> THEN retyped
             ELSE FieldCardinalityCheck(prevField, currField, msgName)

\* one iteration of the loop over prevFields
FieldChanges(prevField, currFieldsByNumber, msgName) ==
    IF prevField.number \notin DOMAIN currFieldsByNumber
    THEN <<FieldRemoved(prevField.name, prevField.number, msgName)>>
    ELSE LET currField == currFieldsByNumber[prevField.number]
         IN  FieldRenameCheck(prevField, currField, msgName)
             \o FieldTypeCheck(prevField, currField, msgName)
             \o FieldCardinalityCheck(prevField, currField, msgName)

\* variant: the i-th previous field is compared with the i-th current field
compareFields_ByPosition(prevMsg, currMsg) ==
    LET msgName == prevMsg.name
        at(i) == IF i \in DOMAIN currMsg.fields
                 THEN Put(EmptyMap, prevMsg.fields[i].number, currMsg.fields[i])
                 ELSE EmptyMap
    IN  Flatten([i \in DOMAIN prevMsg.fields |->
                    FieldChanges(prevMsg.fields[i], at(i), msgName)])

compareFields(prevMsg, currMsg) ==
    LET msgName == prevMsg.name
        currFieldsByNumber == ByNumber(currMsg.fields)
    IN  Flatten([i \in DOMAIN prevMsg.fields |->
                    FieldChanges(prevMsg.fields[i], currFieldsByNumber, msgName)])

-----------------------------------------------------------------------------
(* The namespace flattening *)

\* variant: the enums of messages nested in a message are not visited
collectNestedEnums_NoRecursion(msgs, prefix, out) ==
    LET RECURSIVE own(_, _, _)
        own(enums, msgPrefix, o) ==
            IF enums = <<>> THEN o
            ELSE own(Tail(enums), msgPrefix, Put(o, msgPrefix \o Head(enums).name, Head(enums)))
        RECURSIVE each(_, _)
        each(ms, o) ==
            IF ms = <<>> THEN o
            ELSE each(Tail(ms), own(Head(ms).enums, prefix \o Head(ms).name \o ".", o))
    IN  each(msgs, out)

\* variant: the prefix of a nested message is its own name, without the names of
\* the messages around it
collectNestedEnums_DropPrefix(msgs, prefix, out) ==
    LET RECURSIVE own(_, _, _)
        own(enums, msgPrefix, o) ==
            IF enums = <<>> THEN o
            ELSE own(Tail(enums), msgPrefix, Put(o, msgPrefix \o Head(enums).name, Head(enums)))
        RECURSIVE each(_, _)
        each(ms, o) ==
            IF ms = <<>> THEN o
            ELSE each(Tail(ms),
                      each(Head(ms).messages, own(Head(ms).enums, Head(ms).name \o ".", o)))
    IN  each(msgs, out)

RECURSIVE collectNestedEnums(_, _, _)
collectNestedEnums(msgs, prefix, out) ==
    IF msgs = <<>> THEN out
    ELSE LET msg == Head(msgs)
             msgPrefix == prefix \o msg.name \o "."
             RECURSIVE own(_, _)
             own(enums, o) ==
                 IF enums = <<>> THEN o
                 ELSE own(Tail(enums), Put(o, msgPrefix \o Head(enums).name, Head(enums)))
         IN  collectNestedEnums(Tail(msgs), prefix,
                 collectNestedEnums(msg.messages, msgPrefix, own(msg.enums, out)))

\* variant: the messages nested in a nested message are not visited
collectNestedMessages_OneLevel(msgs, prefix, out) ==
    LET RECURSIVE level(_, _, _, _)
        level(ms, pre, o, depth) ==
            IF ms = <<>> THEN o
            ELSE LET name == pre \o Head(ms).name
                     here == Put(o, name, Head(ms))
                 IN  level(Tail(ms), pre,
                           IF depth < 2 THEN level(Head(ms).messages, name \o ".", here, depth + 1)
                           ELSE here,
                           depth)
    IN  level(msgs, prefix, out, 1)

RECURSIVE collectNestedMessages(_, _, _)
collectNestedMessages(msgs, prefix, out) ==
    IF msgs = <<>> THEN out
    ELSE LET msg == Head(msgs)
             name == prefix \o msg.name
         IN  collectNestedMessages(Tail(msgs), prefix,
                 collectNestedMessages(msg.messages, name \o ".", Put(out, name, msg)))

\* the loops "prevEnumsByName[string(enum.Name())] = enum" and
\* "prevMsgsByName[string(msg.Name())] = msg" over the top-level declarations
RECURSIVE TopLevelByName(_, _)
TopLevelByName(items, out) ==
    IF items = <<>> THEN out
    ELSE TopLevelByName(Tail(items), Put(out, Head(items).name, Head(items)))

\* variant: only the top-level messages are put into the map
MsgsByName_TopLevelOnly(file) == TopLevelByName(file.messages, EmptyMap)

\* prevMsgsByName / currMsgsByName of compareMessages
MsgsByName(file) ==
    collectNestedMessages(file.messages, "", TopLevelByName(file.messages, EmptyMap))

\* prevEnumsByName / currEnumsByName of compareEnums
EnumsByName(file) ==
    collectNestedEnums(file.messages, "", TopLevelByName(file.enums, EmptyMap))

-----------------------------------------------------------------------------
(* compareMessages *)

\* one iteration of the range over prevMsgsByName
MessageChanges(msgName, prevMsgsByName, currMsgsByName) ==
    IF msgName \notin DOMAIN currMsgsByName
    THEN <<MessageRemoved(msgName)>>
    ELSE compareFields(prevMsgsByName[msgName], currMsgsByName[msgName])

\* order: the order in which the range visits prevMsgsByName
compareMessages(prev, curr, order) ==
    LET prevMsgsByName == MsgsByName(prev)
        currMsgsByName == MsgsByName(curr)
    IN  Flatten([i \in DOMAIN order |->
                    MessageChanges(order[i], prevMsgsByName, currMsgsByName)])

-----------------------------------------------------------------------------
(* compareEnums *)

\* variant: a value counts as kept when a current value has its name
EnumValueChanges_MatchByName(prevValue, currValuesByNumber, enumName) ==
    IF \A n \in DOMAIN currValuesByNumber : currValuesByNumber[n].name # prevValue.name
    THEN <<EnumValueRemoved(prevValue.name, prevValue.number, enumName)>>
    ELSE <<>>

\* one iteration of the loop over prevValues
EnumValueChanges(prevValue, currValuesByNumber, enumName) ==
    IF prevValue.number \notin DOMAIN currValuesByNumber
    THEN <<EnumValueRemoved(prevValue.name, prevValue.number, enumName)>>
    ELSE LET currValue == currValuesByNumber[prevValue.number]
         IN  IF prevValue.name # currValue.name
             THEN <<EnumValueRenamed(prevValue.name, currValue.name, enumName)>>
             ELSE <<>>

\* "Compare enum values" for one enum present in both maps
compareEnumValues(prevEnum, currEnum, enumName) ==
    LET currValuesByNumber == ByNumber(currEnum.values)
    IN  Flatten([j \in DOMAIN prevEnum.values |->
                    EnumValueChanges(prevEnum.values[j], currValuesByNumber, enumName)])

\* one iteration of the range over prevEnumsByName
EnumChanges(enumName, prevEnumsByName, currEnumsByName) ==
    IF enumName \notin DOMAIN currEnumsByName
    THEN <<EnumRemoved(enumName)>>
    ELSE compareEnumValues(prevEnumsByName[enumName], currEnumsByName[enumName], enumName)

\* order: the order in which the range visits prevEnumsByName
compareEnums(prev, curr, order) ==
    LET prevEnumsByName == EnumsByName(prev)
        currEnumsByName == EnumsByName(curr)
    IN  Flatten([i \in DOMAIN order |->
                    EnumChanges(order[i], prevEnumsByName, currEnumsByName)])

-----------------------------------------------------------------------------
(* compareServices *)

\* currServicesByName and currMethodsByName
ByName(items) ==
    [n \in {items[i].name : i \in DOMAIN items} |->
        items[CHOOSE i \in DOMAIN items :
                /\ items[i].name = n
                /\ \A j \in DOMAIN items : j > i => items[j].name # n]]

\* "Check input type changes"
MethodInputCheck(prevMethod, currMethod, serviceName) ==
    IF prevMethod.input # currMethod.input
    THEN <<MethodInputChanged(prevMethod.name, prevMethod.input, currMethod.input,
                              serviceName)>>
    ELSE <<>>

\* "Check output type changes"
MethodOutputCheck(prevMethod, currMethod, serviceName) ==
    IF prevMethod.output # currMethod.output
    THEN <<MethodOutputChanged(prevMethod.name, prevMethod.output, currMethod.output,
                               serviceName)>>
    ELSE <<>>

\* "Check streaming changes", client side
MethodClientStreamingCheck(prevMethod, currMethod, serviceName) ==
    IF prevMethod.clientStreaming # currMethod.clientStreaming
    THEN <<MethodClientStreamingChanged(prevMethod.name, prevMethod.clientStreaming,
                                        currMethod.clientStreaming, serviceName)>>
    ELSE <<>>

\* "Check streaming changes", server side
MethodServerStreamingCheck(prevMethod, currMethod, serviceName) ==
    IF prevMethod.serverStreaming # currMethod.serverStreaming
    THEN <<MethodServerStreamingChanged(prevMethod.name, prevMethod.serverStreaming,
                                        currMethod.serverStreaming, serviceName)>>
    ELSE <<>>

\* variant: the four checks chained with else, the first that fires wins
MethodChanges_FirstCheckOnly(prevMethod, currMethodsByName, serviceName) ==
    IF prevMethod.name \notin DOMAIN currMethodsByName
    THEN <<MethodRemoved(prevMethod.name, serviceName)>>
    ELSE LET currMethod == currMethodsByName[prevMethod.name]
             checks == <<MethodInputCheck(prevMethod, currMethod, serviceName),
                         MethodOutputCheck(prevMethod, currMethod, serviceName),
                         MethodClientStreamingCheck(prevMethod, currMethod, serviceName),
                         MethodServerStreamingCheck(prevMethod, currMethod, serviceName)>>
             fired == {i \in DOMAIN checks : checks[i] # <<>>}
         IN  IF fired = {} THEN <<>>
             ELSE checks[CHOOSE i \in fired : \A j \in fired : i <= j]

\* variant: a method counts as kept when a current method has its signature
MethodChanges_MatchBySignature(prevMethod, currMethodsByName, serviceName) ==
    LET same(c) == /\ c.input = prevMethod.input /\ c.output = prevMethod.output
                   /\ c.clientStreaming = prevMethod.clientStreaming
                   /\ c.serverStreaming = prevMethod.serverStreaming
    IN  IF \A n \in DOMAIN currMethodsByName : ~same(currMethodsByName[n])
        THEN <<MethodRemoved(prevMethod.name, serviceName)>>
        ELSE <<>>

\* one iteration of the loop over prevMethods
MethodChanges(prevMethod, currMethodsByName, serviceName) ==
    IF prevMethod.name \notin DOMAIN currMethodsByName
    THEN <<MethodRemoved(prevMethod.name, serviceName)>>
    ELSE LET currMethod == currMethodsByName[prevMethod.name]
         IN  MethodInputCheck(prevMethod, currMethod, serviceName)
             \o MethodOutputCheck(prevMethod, currMethod, serviceName)
             \o MethodClientStreamingCheck(prevMethod, currMethod, serviceName)
             \o MethodServerStreamingCheck(prevMethod, currMethod, serviceName)

\* one iteration of the loop over prevServices
ServiceChanges(prevService, currServicesByName) ==
    IF prevService.name \notin DOMAIN currServicesByName
    THEN <<ServiceRemoved(prevService.name)>>
    ELSE LET currMethodsByName == ByName(currServicesByName[prevService.name].methods)
         IN  Flatten([j \in DOMAIN prevService.methods |->
                         MethodChanges(prevService.methods[j], currMethodsByName,
                                       prevService.name)])

compareServices(prev, curr) ==
    LET currServicesByName == ByName(curr.services)
    IN  Flatten([i \in DOMAIN prev.services |->
                    ServiceChanges(prev.services[i], currServicesByName)])

-----------------------------------------------------------------------------
(* compareProtoFile, from "Compare the files directly" on *)

\* msgOrder, enumOrder: the orders of the two ranges over Go maps
compareTrees(prev, curr, msgOrder, enumOrder) ==
    compareMessages(prev, curr, msgOrder)
    \o compareEnums(prev, curr, enumOrder)
    \o compareServices(prev, curr)

-----------------------------------------------------------------------------
(* The descriptor trees the comparison is run on *)

Field(name, number, type, cardinality) ==
    [name |-> name, number |-> number, kind |-> type[1], cardinality |-> cardinality,
     typeName |-> type[2]]

Message(name, fields, messages, enums) ==
    [name |-> name, fields |-> fields, messages |-> messages, enums |-> enums]

Value(name, number) == [name |-> name, number |-> number]

Enum(name, values) == [name |-> name, values |-> values]

Method(name, input, out, clientStreaming, serverStreaming) ==
    [name |-> name, input |-> input, output |-> out,
     clientStreaming |-> clientStreaming, serverStreaming |-> serverStreaming]

Service(name, methods) == [name |-> name, methods |-> methods]

File(messages, enums, services) ==
    [package |-> "p", messages |-> messages, enums |-> enums, services |-> services]

EmptyFile == File(<<>>, <<>>, <<>>)

\* Files of one message M whose fields vary: up to two fields, listed by number
FieldNames == {"a", "b"}
FieldTypes == {<<"string", "">>, <<"int64", "">>, <<"message", "p.T1">>, <<"message", "p.T2">>}
Cardinalities == {"optional", "repeated"}

Fields ==
    {Field(n, k, t, c) : n \in FieldNames, k \in 1..MaxFieldNumber,
                         t \in FieldTypes, c \in Cardinalities}

FieldLists ==
    {<<>>} \cup {<<f>> : f \in Fields}
    \cup {<<f, g>> : <<f, g>> \in {p \in Fields \X Fields :
                                     p[1].number < p[2].number /\ p[1].name # p[2].name}}

FieldFiles == {File(<<Message("M", fl, <<>>, <<>>)>>, <<>>, <<>>) : fl \in FieldLists}

\* Files of one enum E, top-level or nested in a message M, whose values vary:
\* one or two values, listed by number
ValueNames == {"X", "Y", "Z"}

Values == {Value(n, k) : n \in ValueNames, k \in 0..MaxValueNumber}

ValueLists ==
    {<<v>> : v \in Values}
    \cup {<<v, w>> : <<v, w>> \in {p \in Values \X Values :
                                     p[1].number < p[2].number /\ p[1].name # p[2].name}}

EnumFiles ==
    {File(<<>>, <<Enum("E", vl)>>, <<>>) : vl \in ValueLists}
    \cup {File(<<Message("M", <<>>, <<>>, <<Enum("E", vl)>>)>>, <<>>, <<>>) : vl \in ValueLists}

\* Files of one service S: a method Get whose four attributes vary, a method Put
\* that is there or not
GetMethods ==
    {Method("Get", i, o, cs, ss) : i \in {"p.Req", "p.Req2"}, o \in {"p.Res", "p.Res2"},
                                   cs \in BOOLEAN, ss \in BOOLEAN}

PutMethod == Method("Put", "p.Req", "p.Res", FALSE, FALSE)

MethodLists ==
    {<<>>, <<PutMethod>>} \cup {<<m>> : m \in GetMethods}
    \cup {<<m, PutMethod>> : m \in GetMethods}

ServiceFiles == {File(<<>>, <<>>, <<Service("S", ml)>>) : ml \in MethodLists}

\* Files whose declarations vary: at most MaxDecls declarations, each a message
\* A or B at any depth, an enum E at top level or in any message, or a service S.
\* A declaration is named here by its path, the names from the top level down.
MessageNames == <<"A", "B">>
StructField == Field("a", 1, <<"string", "">>, "optional")
StructEnumValues == <<Value("X", 0)>>
StructMethods == <<PutMethod>>

Decl(kind, path) == [kind |-> kind, path |-> path]

\* the declarations that can be added to the set S of declarations
Extensions(S) ==
    LET parents == {<<>>} \cup {d.path : d \in {e \in S : e.kind = "message"}}
    IN  ({Decl("message", Append(p, MessageNames[i])) : p \in parents, i \in DOMAIN MessageNames}
         \cup {Decl("enum", Append(p, "E")) : p \in parents}
         \cup {Decl("service", <<"S">>)}) \ S

RECURSIVE DeclSets(_)
DeclSets(n) ==
    IF n = 0 THEN {{}}
    ELSE LET smaller == DeclSets(n - 1)
         IN  smaller \cup UNION {{S \cup {d} : d \in Extensions(S)} : S \in smaller}

RECURSIVE MessagesAt(_, _)
MessagesAt(S, path) ==
    LET names == SelectSeq(MessageNames, LAMBDA n : Decl("message", Append(path, n)) \in S)
    IN  [i \in DOMAIN names |->
            Message(names[i], <<StructField>>, MessagesAt(S, Append(path, names[i])),
                    IF Decl("enum", Append(Append(path, names[i]), "E")) \in S
                    THEN <<Enum("E", StructEnumValues)>> ELSE <<>>)]

TreeOf(S) ==
    File(MessagesAt(S, <<>>),
         IF Decl("enum", <<"E">>) \in S THEN <<Enum("E", StructEnumValues)>> ELSE <<>>,
         IF Decl("service", <<"S">>) \in S THEN <<Service("S", StructMethods)>> ELSE <<>>)

StructFiles == {TreeOf(S) : S \in DeclSets(MaxDecls)}

\* Files of two messages A and B that each declare a nested message Item, whose
\* field varies
ItemFieldLists ==
    {<<>>, <<StructField>>, <<Field("b", 1, <<"string", "">>, "optional")>>}

ItemFiles ==
    {File(<<Message("A", <<>>, <<Message("Item", fa, <<>>, <<>>)>>, <<>>),
            Message("B", <<>>, <<Message("Item", fb, <<>>, <<>>)>>, <<>>)>>, <<>>, <<>>) :
        fa \in ItemFieldLists, fb \in ItemFieldLists}

\* the pairs (previous, current) compared
InputPairs ==
    (FieldFiles \X FieldFiles) \cup (EnumFiles \X EnumFiles)
    \cup (ServiceFiles \X ServiceFiles) \cup (StructFiles \X StructFiles)
    \cup (ItemFiles \X ItemFiles)

-----------------------------------------------------------------------------
(* The comparison of one pair of trees, as compareProtoFile runs it once both
   files are parsed *)

Init ==
    /\ \E p \in InputPairs : prevFile = p[1] /\ currFile = p[2]
    /\ allBreakingChanges = <<>>
    /\ pc = "compare"
    /\ files = <<>>
    /\ commitOK = TRUE
    /\ modifiedProtoFiles = <<>>
    /\ next = 1
    /\ hasBreakingChanges = FALSE
    /\ output = <<>>
    /\ tmpFiles = {}
    /\ exitCode = -1

Compare ==
    /\ pc = "compare"
    /\ \E msgOrder \in Orders(DOMAIN MsgsByName(prevFile)),
          enumOrder \in Orders(DOMAIN EnumsByName(prevFile)) :
            allBreakingChanges' = compareTrees(prevFile, currFile, msgOrder, enumOrder)
    /\ pc' = "compared"
    /\ UNCHANGED <<prevFile, currFile>>
    /\ UNCHANGED runVars

Next == Compare

Spec == Init /\ [][Next]_vars

-----------------------------------------------------------------------------
(* The run of main over the files git reports *)

\* one version of a file: whether it is there, whether the parser accepts it,
\* its descriptor tree if so
Version(exists, parses, desc) == [exists |-> exists, parses |-> parses, desc |-> desc]

Absent == Version(FALSE, FALSE, EmptyFile)
Unparsable == Version(TRUE, FALSE, EmptyFile)
Parsed(desc) == Version(TRUE, TRUE, desc)

WithField == File(<<Message("M", <<StructField>>, <<>>, <<>>)>>, <<>>, <<>>)
WithoutField == File(<<Message("M", <<>>, <<>>, <<>>)>>, <<>>, <<>>)

Versions == {Absent, Unparsable, Parsed(WithField), Parsed(WithoutField)}

FileStems == <<"a", "b", "c", "d">>

\* prev: the version in the commit compared against; curr: the version on disk;
\* touched: whether the two texts differ
RepoFile(stem, ext, prev, curr, touched) ==
    [path |-> stem \o ext, ext |-> ext, prev |-> prev, curr |-> curr, touched |-> touched]

RepoFilesOf(stem) ==
    {RepoFile(stem, ".proto", v[1], v[2], t) :
        v \in {w \in Versions \X Versions : w[1].exists \/ w[2].exists}, t \in BOOLEAN}
    \cup {RepoFile(stem, ".txt", Unparsable, Unparsable, TRUE)}

\* two different versions have different texts
WellFormedFile(f) == f.prev # f.curr => f.touched

RECURSIVE RepoFiles(_)
RepoFiles(n) ==
    IF n = 0 THEN {<<>>}
    ELSE {Append(fs, f) : fs \in RepoFiles(n - 1),
                          f \in {g \in RepoFilesOf(FileStems[n]) : WellFormedFile(g)}}

\* the lines of "git diff --name-only <commit>"
gitDiffNameOnly(fs) ==
    LET changed == SelectSeq(fs, LAMBDA f : f.prev.exists # f.curr.exists \/ f.touched)
    IN  [i \in DOMAIN changed |-> changed[i].path]

FileAt(fs, path) == CHOOSE f \in Range(fs) : f.path = path

\* "Filter for .proto files": by extension, and only files that exist on disk
IsListed(f) == f.ext = ".proto" /\ f.curr.exists

getModifiedProtoFiles(fs, commitValid) ==
    IF ~commitValid
    THEN [err |-> "commit does not exist or is invalid", files |-> <<>>]
    ELSE [err |-> "",
          files |-> SelectSeq(gitDiffNameOnly(fs), LAMBDA path : IsListed(FileAt(fs, path)))]

\* what the environment does to one call of compareProtoFile
Envs == [tempFileOK : BOOLEAN, writeOK : BOOLEAN]

\* variant: the temporary file is not removed when writing to it fails
getPreviousVersionOfFile_KeepOnWriteError(f, tmpPath, env, disk) ==
    IF ~env.tempFileOK
    THEN [err |-> "error creating temporary file", disk |-> disk]
    ELSE IF ~f.prev.exists
    THEN [err |-> "error getting previous version from git", disk |-> (disk \cup {tmpPath}) \ {tmpPath}]
    ELSE IF ~env.writeOK
    THEN [err |-> "error writing to temporary file", disk |-> disk \cup {tmpPath}]
    ELSE [err |-> "", disk |-> disk \cup {tmpPath}]

\* disk: the temporary files that exist; tmpPath: the name ioutil.TempFile picks
getPreviousVersionOfFile(f, tmpPath, env, disk) ==
    IF ~env.tempFileOK
    THEN [err |-> "error creating temporary file", disk |-> disk]
    ELSE IF ~f.prev.exists
    THEN [err |-> "error getting previous version from git", disk |-> (disk \cup {tmpPath}) \ {tmpPath}]
    ELSE IF ~env.writeOK
    THEN [err |-> "error writing to temporary file", disk |-> (disk \cup {tmpPath}) \ {tmpPath}]
    ELSE [err |-> "", disk |-> disk \cup {tmpPath}]

\* variant: a current file that does not parse is compared as an empty tree
compareProtoFile_UnparsableAsEmpty(f, tmpPath, env, disk, msgOrder, enumOrder) ==
    LET got == getPreviousVersionOfFile(f, tmpPath, env, disk)
        deferred == got.disk \ {tmpPath}
    IN  IF got.err # ""
        THEN [err |-> "error getting previous version: " \o got.err, changes |-> <<>>,
              disk |-> got.disk]
        ELSE IF ~f.prev.parses
        THEN [err |-> "error parsing previous proto file", changes |-> <<>>, disk |-> deferred]
        ELSE [err |-> "",
              changes |-> compareTrees(f.prev.desc,
                                       IF f.curr.parses THEN f.curr.desc ELSE EmptyFile,
                                       msgOrder, enumOrder),
              disk |-> deferred]

compareProtoFile(f, tmpPath, env, disk, msgOrder, enumOrder) ==
    LET got == getPreviousVersionOfFile(f, tmpPath, env, disk)
        deferred == got.disk \ {tmpPath}      \* defer os.Remove(prevProtoPath)
    IN  IF got.err # ""
        THEN [err |-> "error getting previous version: " \o got.err, changes |-> <<>>,
              disk |-> got.disk]
        ELSE IF ~f.prev.parses
        THEN [err |-> "error parsing previous proto file", changes |-> <<>>, disk |-> deferred]
        ELSE IF ~f.curr.parses
        THEN [err |-> "error parsing current proto file", changes |-> <<>>, disk |-> deferred]
        ELSE [err |-> "",
              changes |-> compareTrees(f.prev.desc, f.curr.desc, msgOrder, enumOrder),
              disk |-> deferred]

TmpName(i) == <<"prev", i>>

\* one line group of main's report
Report(path, status, err, changes) ==
    [file |-> path, status |-> status, err |-> err, changes |-> changes]

RunInit ==
    /\ \E n \in 0..MaxFiles : files \in RepoFiles(n)
    /\ commitOK \in BOOLEAN
    /\ prevFile = EmptyFile
    /\ currFile = EmptyFile
    /\ allBreakingChanges = <<>>
    /\ pc = "start"
    /\ modifiedProtoFiles = <<>>
    /\ next = 1
    /\ hasBreakingChanges = FALSE
    /\ output = <<>>
    /\ tmpFiles = {}
    /\ exitCode = -1

\* main up to its loop
GetModified ==
    /\ pc = "start"
    /\ LET got == getModifiedProtoFiles(files, commitOK)
       IN  /\ modifiedProtoFiles' = got.files
           /\ IF got.err # "" THEN pc' = "exit" /\ exitCode' = 1
              ELSE IF Len(got.files) = 0 THEN pc' = "exit" /\ exitCode' = 0
              ELSE pc' = "loop" /\ exitCode' = exitCode
    /\ UNCHANGED <<prevFile, currFile, allBreakingChanges, files, commitOK, next,
                   hasBreakingChanges, output, tmpFiles>>

\* variant: an error of compareProtoFile ends the run
ProcessFile_AbortOnError ==
    /\ pc = "loop"
    /\ next <= Len(modifiedProtoFiles)
    /\ LET f == FileAt(files, modifiedProtoFiles[next])
       IN  \E env \in Envs,
              msgOrder \in Orders(DOMAIN MsgsByName(f.prev.desc)),
              enumOrder \in Orders(DOMAIN EnumsByName(f.prev.desc)) :
                LET r == compareProtoFile(f, TmpName(next), env, tmpFiles, msgOrder, enumOrder)
                IN  /\ tmpFiles' = r.disk
                    /\ IF r.err # ""
                       THEN /\ output' = Append(output, Report(f.path, "error", r.err, <<>>))
                            /\ pc' = "exit"
                            /\ exitCode' = 1
                            /\ UNCHANGED <<hasBreakingChanges, prevFile, currFile,
                                           allBreakingChanges>>
                       ELSE /\ prevFile' = f.prev.desc
                            /\ currFile' = f.curr.desc
                            /\ allBreakingChanges' = r.changes
                            /\ UNCHANGED <<pc, exitCode>>
                            /\ IF Len(r.changes) = 0
                               THEN /\ output' = Append(output, Report(f.path, "clean", "", <<>>))
                                    /\ UNCHANGED hasBreakingChanges
                               ELSE /\ output' = Append(output, Report(f.path, "breaking", "", r.changes))
                                    /\ hasBreakingChanges' = TRUE
    /\ next' = next + 1
    /\ UNCHANGED <<files, commitOK, modifiedProtoFiles>>

\* one iteration of "Process each modified proto file"
ProcessFile ==
    /\ pc = "loop"
    /\ next <= Len(modifiedProtoFiles)
    /\ LET f == FileAt(files, modifiedProtoFiles[next])
       IN  \E env \in Envs,
              msgOrder \in Orders(DOMAIN MsgsByName(f.prev.desc)),
              enumOrder \in Orders(DOMAIN EnumsByName(f.prev.desc)) :
                LET r == compareProtoFile(f, TmpName(next), env, tmpFiles, msgOrder, enumOrder)
                IN  /\ tmpFiles' = r.disk
                    /\ IF r.err # ""
                       THEN /\ output' = Append(output, Report(f.path, "error", r.err, <<>>))
                            /\ UNCHANGED <<hasBreakingChanges, prevFile, currFile,
                                           allBreakingChanges>>
                       ELSE /\ prevFile' = f.prev.desc
                            /\ currFile' = f.curr.desc
                            /\ allBreakingChanges' = r.changes
                            /\ IF Len(r.changes) = 0
                               THEN /\ output' = Append(output, Report(f.path, "clean", "", <<>>))
                                    /\ UNCHANGED hasBreakingChanges
                               ELSE /\ output' = Append(output, Report(f.path, "breaking", "", r.changes))
                                    /\ hasBreakingChanges' = TRUE
    /\ next' = next + 1
    /\ UNCHANGED <<pc, files, commitOK, modifiedProtoFiles, exitCode>>

\* variant: a pair that failed makes the run end as breaking
Finish_ErrorIsBreaking ==
    /\ pc = "loop"
    /\ next > Len(modifiedProtoFiles)
    /\ exitCode' = IF hasBreakingChanges \/ \E i \in DOMAIN output : output[i].status = "error"
                   THEN 1 ELSE 0
    /\ pc' = "exit"
    /\ UNCHANGED <<prevFile, currFile, allBreakingChanges, files, commitOK,
                   modifiedProtoFiles, next, hasBreakingChanges, output, tmpFiles>>

\* "Exit with error code if breaking changes were found"
Finish ==
    /\ pc = "loop"
    /\ next > Len(modifiedProtoFiles)
    /\ exitCode' = IF hasBreakingChanges THEN 1 ELSE 0
    /\ pc' = "exit"
    /\ UNCHANGED <<prevFile, currFile, allBreakingChanges, files, commitOK,
                   modifiedProtoFiles, next, hasBreakingChanges, output, tmpFiles>>

RunNext == GetModified \/ ProcessFile \/ Finish

RunSpec == RunInit /\ [][RunNext]_vars

-----------------------------------------------------------------------------
(* Vocabulary of the properties *)

Ind(b) == IF b THEN 1 ELSE 0

Compared == pc = "compared"

Reported == Range(allBreakingChanges)

\* the messages present under the same qualified name in both trees
MatchedMessages == (DOMAIN MsgsByName(prevFile)) \cap (DOMAIN MsgsByName(currFile))

PrevMsg(k) == MsgsByName(prevFile)[k]
CurrMsg(k) == MsgsByName(currFile)[k]

\* the findings of compareFields that are about the previous field f
AboutField(x, f) ==
    \/ x.kind \in {"field_removed", "field_type_changed", "field_cardinality_changed"}
       /\ x.name = f.name
    \/ x.kind = "field_renamed" /\ x.from = f.name

NumberGone(f, currItems) == \A j \in DOMAIN currItems : currItems[j].number # f.number

\* the pairs (previous field, current field) of message k that share a number
MatchedFields(k) ==
    {p \in Range(PrevMsg(k).fields) \X Range(CurrMsg(k).fields) : p[1].number = p[2].number}

Narrowed(f, g) == f.cardinality = "repeated" /\ g.cardinality # "repeated"

\* C1: in every pair of matched messages, a previous field gets a field-removed
\* finding exactly when no current field has its number, whatever the names are;
\* the finding carries its previous name and number, it is the only finding about
\* the field, and it is part of the findings of the file pair.
C1_FieldRemovedIffNumberGone ==
    Compared =>
        \A k \in MatchedMessages :
            LET out == compareFields(PrevMsg(k), CurrMsg(k))
            IN  \A f \in Range(PrevMsg(k).fields) :
                    LET removed == FieldRemoved(f.name, f.number, PrevMsg(k).name)
                        gone == NumberGone(f, CurrMsg(k).fields)
                    IN  /\ gone => /\ Count(out, LAMBDA x : x = removed) = 1
                                   /\ Count(out, LAMBDA x : AboutField(x, f)) = 1
                                   /\ removed \in Reported
                        /\ ~gone => \A i \in DOMAIN out :
                                        out[i].kind = "field_removed"
                                            => out[i].name # f.name /\ out[i].number # f.number

\* a field whose number is gone while its name is still in use is reported removed
C1_Witness ==
    /\ Compared
    /\ \E k \in MatchedMessages : \E f \in Range(PrevMsg(k).fields) :
          /\ NumberGone(f, CurrMsg(k).fields)
          /\ \E g \in Range(CurrMsg(k).fields) : g.name = f.name
          /\ FieldRemoved(f.name, f.number, PrevMsg(k).name) \in Reported

\* C2: for two fields matched by number the rename finding is there exactly when
\* the names differ, and the findings about the field are as many as the checks
\* (rename, type, cardinality) that apply: none suppresses another.
C2_FieldChecksIndependent ==
    Compared =>
        \A k \in MatchedMessages :
            LET out == compareFields(PrevMsg(k), CurrMsg(k))
            IN  \A p \in MatchedFields(k) :
                    LET f == p[1]
                        g == p[2]
                        renamed == FieldRenamed(f.name, g.name, PrevMsg(k).name)
                    IN  /\ Count(out, LAMBDA x : x = renamed) = Ind(f.name # g.name)
                        /\ Count(out, LAMBDA x : AboutField(x, f))
                             = Ind(f.name # g.name) + Ind(f.kind # g.kind) + Ind(Narrowed(f, g))
                        /\ f.name # g.name => renamed \in Reported

\* a field renamed, retyped and narrowed at once gets three findings
C2_Witness ==
    /\ Compared
    /\ \E k \in MatchedMessages : \E p \in MatchedFields(k) :
          /\ p[1].name # p[2].name /\ p[1].kind # p[2].kind /\ Narrowed(p[1], p[2])
          /\ Count(allBreakingChanges, LAMBDA x : AboutField(x, p[1])) = 3

\* C3: for two fields matched by number the cardinality finding is there exactly
\* when the previous field is repeated and the current one is not; a field that
\* only goes from not repeated to repeated gets no finding at all.
C3_CardinalityAsymmetric ==
    Compared =>
        \A k \in MatchedMessages :
            LET out == compareFields(PrevMsg(k), CurrMsg(k))
            IN  \A p \in MatchedFields(k) :
                    LET f == p[1]
                        g == p[2]
                        narrowed == FieldCardinalityChanged(f.name, PrevMsg(k).name)
                    IN  /\ Count(out, LAMBDA x : x.kind = "field_cardinality_changed"
                                                   /\ x.name = f.name)
                             = Ind(Narrowed(f, g))
                        /\ Narrowed(f, g) => narrowed \in Reported
                        /\ (/\ f.cardinality # "repeated" /\ g.cardinality = "repeated"
                            /\ f.name = g.name /\ f.kind = g.kind)
                               => Count(out, LAMBDA x : AboutField(x, f)) = 0

\* one field goes from repeated to optional and is reported, another of the same
\* message goes from optional to repeated and is not
C3_Witness ==
    /\ Compared
    /\ \E k \in MatchedMessages : \E p, q \in MatchedFields(k) :
          /\ Narrowed(p[1], p[2])
          /\ FieldCardinalityChanged(p[1].name, PrevMsg(k).name) \in Reported
          /\ q[1].cardinality = "optional" /\ q[2].cardinality = "repeated"
          /\ Count(allBreakingChanges, LAMBDA x : AboutField(x, q[1])) = 0

\* the declared type of a field: its kind and, for a message or enum kind, the
\* type it references
DeclaredType(f) == <<f.kind, f.typeName>>

\* C4: a field that keeps its number while its declared type changes (another
\* scalar kind, or another referenced message type) gets exactly one type-change
\* finding.
C4_TypeChangeReported ==
    Compared =>
        \A k \in MatchedMessages :
            LET out == compareFields(PrevMsg(k), CurrMsg(k))
            IN  \A p \in MatchedFields(k) :
                    DeclaredType(p[1]) # DeclaredType(p[2])
                        => Count(out, LAMBDA x : x.kind = "field_type_changed"
                                                   /\ x.name = p[1].name) = 1

\* every element of the list prev is in the list curr
AllKept(prev, curr) == Range(prev) \subseteq Range(curr)

\* for every p of the list prev a c of the list curr has its name and Grows(p, c)
EachGrows(prev, curr, Grows(_, _)) ==
    \A i \in DOMAIN prev : \E j \in DOMAIN curr :
        curr[j].name = prev[i].name /\ Grows(prev[i], curr[j])

EnumGrows(p, c) == AllKept(p.values, c.values)

RECURSIVE MessageGrows(_, _)
MessageGrows(p, c) ==
    /\ AllKept(p.fields, c.fields)
    /\ EachGrows(p.enums, c.enums, EnumGrows)
    /\ EachGrows(p.messages, c.messages, MessageGrows)

ServiceGrows(p, c) == AllKept(p.methods, c.methods)

\* curr is prev with declarations, fields, values or methods added, nothing else
FileGrows(prev, curr) ==
    /\ EachGrows(prev.messages, curr.messages, MessageGrows)
    /\ EachGrows(prev.enums, curr.enums, EnumGrows)
    /\ EachGrows(prev.services, curr.services, ServiceGrows)

\* C5: when the current tree is the previous one with only additions (messages,
\* nested messages, fields with new numbers, enums, values with new numbers,
\* services, methods), the three comparators together return no finding.
C5_AdditionsAreNotFindings ==
    Compared /\ FileGrows(prevFile, currFile) => allBreakingChanges = <<>>

\* something was added to a tree that declares something, and nothing is found
C5_Witness ==
    /\ Compared
    /\ FileGrows(prevFile, currFile)
    /\ prevFile # currFile
    /\ prevFile # EmptyFile
    /\ allBreakingChanges = <<>>

\* C6: comparing a tree with itself yields no finding.
C6_SelfComparisonIsEmpty ==
    Compared /\ prevFile = currFile => allBreakingChanges = <<>>

\* a tree with a message that has fields, compared with itself
C6_Witness ==
    /\ Compared
    /\ prevFile = currFile
    /\ \E k \in MatchedMessages : PrevMsg(k).fields # <<>>
    /\ allBreakingChanges = <<>>

\* the qualified name of a declaration: the names on its path joined by dots
RECURSIVE Join(_)
Join(path) ==
    IF Len(path) = 1 THEN path[1] ELSE path[1] \o "." \o Join(Tail(path))

\* the messages and enums declared in the messages msgs, which sit at path
RECURSIVE DeclsIn(_, _)
DeclsIn(msgs, path) ==
    UNION {LET here == Append(path, msgs[i].name)
           IN  {Decl("message", here)}
               \cup {Decl("enum", Append(here, msgs[i].enums[j].name)) :
                        j \in DOMAIN msgs[i].enums}
               \cup DeclsIn(msgs[i].messages, here)
           : i \in DOMAIN msgs}

\* the declarations of a tree that are nested in a message
NestedDecls(file) == {d \in DeclsIn(file.messages, <<>>) : Len(d.path) > 1}

\* the list msgs without the declaration d, which sits below one of them
RECURSIVE Without(_, _, _)
Without(msgs, d, depth) ==
    [i \in DOMAIN msgs |->
        IF msgs[i].name # d.path[depth] THEN msgs[i]
        ELSE IF depth + 1 < Len(d.path)
        THEN [msgs[i] EXCEPT !.messages = Without(msgs[i].messages, d, depth + 1)]
        ELSE IF d.kind = "message"
        THEN [msgs[i] EXCEPT !.messages =
                 SelectSeq(msgs[i].messages, LAMBDA m : m.name # d.path[depth + 1])]
        ELSE [msgs[i] EXCEPT !.enums =
                 SelectSeq(msgs[i].enums, LAMBDA e : e.name # d.path[depth + 1])]]

\* the tree file with its nested declaration d taken out, all else unchanged
RemoveNested(file, d) == [file EXCEPT !.messages = Without(file.messages, d, 1)]

\* d and, for a message, what is declared inside it
Subtree(file, d) ==
    {e \in DeclsIn(file.messages, <<>>) :
        /\ Len(e.path) >= Len(d.path)
        /\ SubSeq(e.path, 1, Len(d.path)) = d.path
        /\ (e = d \/ d.kind = "message")}

RemovalFinding(d) ==
    IF d.kind = "message" THEN MessageRemoved(Join(d.path)) ELSE EnumRemoved(Join(d.path))

\* C7 as stated: taking one nested message or enum out of a tree, all else
\* unchanged, yields exactly one finding, the removal of that declaration under
\* its dotted path.
C7_NestedRemovalOneFinding ==
    Compared =>
        \A d \in NestedDecls(prevFile) :
            currFile = RemoveNested(prevFile, d)
                => allBreakingChanges = <<RemovalFinding(d)>>

\* C7 as amended: taking one nested message or enum out of a tree, all else
\* unchanged, yields exactly one removal finding for the declaration taken out and
\* one for every message and enum declared inside it, each under its dotted path,
\* and no other finding (none for the enclosing message); so exactly one finding
\* when the declaration taken out declares nothing itself.
C7_NestedRemovalOnePerDeclaration ==
    Compared =>
        \A d \in NestedDecls(prevFile) :
            currFile = RemoveNested(prevFile, d)
                => LET gone == Subtree(prevFile, d)
                   IN  /\ Reported = {RemovalFinding(e) : e \in gone}
                       /\ Len(allBreakingChanges) = Cardinality(gone)
                       /\ Cardinality(gone) = 1 => allBreakingChanges = <<RemovalFinding(d)>>

\* a message nested two levels deep is taken out and exactly that is found
C7_Witness ==
    /\ Compared
    /\ \E d \in NestedDecls(prevFile) :
          /\ d.kind = "message"
          /\ Len(d.path) = 3
          /\ currFile = RemoveNested(prevFile, d)
          /\ allBreakingChanges = <<MessageRemoved(Join(d.path))>>

\* the packages declared by the current snapshot
CurrentPackages ==
    {f.curr.desc.package : f \in {g \in Range(files) : g.curr.exists /\ g.curr.parses}}

\* the findings main printed, over all files
PrintedFindings == UNION {Range(output[i].changes) : i \in DOMAIN output}

\* C8: at the end of a run over two snapshots that parse, for every previous file
\* whose package is declared by no current file a package-removed finding that
\* references the file's path has been reported, and the run ends as breaking.
C8_PackageRemovalReported ==
    (/\ pc = "exit"
     /\ commitOK
     /\ \A f \in Range(files) : (f.prev.exists => f.prev.parses) /\ (f.curr.exists => f.curr.parses))
        => \A f \in Range(files) :
               f.prev.exists /\ f.prev.desc.package \notin CurrentPackages
                   => /\ \E x \in PrintedFindings :
                            x.kind = "package_removed" /\ x.name = f.path
                      /\ exitCode = 1

\* the enums present under the same qualified name in both trees
MatchedEnums == (DOMAIN EnumsByName(prevFile)) \cap (DOMAIN EnumsByName(currFile))

PrevEnum(k) == EnumsByName(prevFile)[k]
CurrEnum(k) == EnumsByName(currFile)[k]

\* the findings about the previous value v of the enum with qualified name k
AboutValue(x, v, k) ==
    /\ x.scope = k
    /\ \/ x.kind = "enum_value_removed" /\ x.name = v.name
       \/ x.kind = "enum_value_renamed" /\ x.from = v.name

\* the current values that have the number of v
SameNumber(v, currValues) == {w \in Range(currValues) : w.number = v.number}

\* the finding the previous value v of enum k is due, if any
ValueFindingsDue(v, k) ==
    IF SameNumber(v, CurrEnum(k).values) = {}
    THEN {EnumValueRemoved(v.name, v.number, k)}
    ELSE {EnumValueRenamed(v.name, w.name, k) :
             w \in {u \in SameNumber(v, CurrEnum(k).values) : u.name # v.name}}

\* C9: for an enum present under the same qualified name in both trees, a
\* previous value gets exactly one value-removed finding when no current value has
\* its number, exactly one value-renamed finding when the current value of that
\* number has another name, and none otherwise; the enum gets no other finding,
\* so a value that only the current enum has yields nothing.
C9_EnumValueFindings ==
    Compared =>
        \A k \in MatchedEnums :
            /\ \A v \in Range(PrevEnum(k).values) :
                  /\ Cardinality(ValueFindingsDue(v, k)) <= 1
                  /\ \A x \in ValueFindingsDue(v, k) :
                        Count(allBreakingChanges, LAMBDA y : y = x) = 1
                  /\ Count(allBreakingChanges, LAMBDA y : AboutValue(y, v, k))
                        = Cardinality(ValueFindingsDue(v, k))
            /\ Count(allBreakingChanges,
                     LAMBDA y : y.scope = k /\ y.kind \in {"enum_value_removed", "enum_value_renamed"})
                  = Cardinality(UNION {ValueFindingsDue(v, k) : v \in Range(PrevEnum(k).values)})

\* E = {X = 0, Y = 1} becomes E = {X = 0, Z = 1}: one rename finding, nothing on X
C9_Witness ==
    /\ Compared
    /\ "E" \in MatchedEnums
    /\ PrevEnum("E").values = <<Value("X", 0), Value("Y", 1)>>
    /\ CurrEnum("E").values = <<Value("X", 0), Value("Z", 1)>>
    /\ allBreakingChanges = <<EnumValueRenamed("Y", "Z", "E")>>

\* the pairs (previous method, current method) of the same service and name
MatchedMethods ==
    {p \in UNION {Range(sv.methods) \X Range(cv.methods) :
                    <<sv, cv>> \in {q \in Range(prevFile.services) \X Range(currFile.services) :
                                      q[1].name = q[2].name}} :
        p[1].name = p[2].name}

\* the service of the previous tree that declares method m
ServiceOf(m) == CHOOSE sv \in Range(prevFile.services) : m \in Range(sv.methods)

MethodFindingKinds ==
    {"method_removed", "method_input_changed", "method_output_changed",
     "method_client_streaming_changed", "method_server_streaming_changed"}

\* C10: for a method matched by name in a service matched by name, the findings
\* about it are as many as the attributes (input type, output type, client
\* streaming, server streaming) that differ, and each attribute that differs has
\* its own finding.
C10_MethodChecksIndependent ==
    Compared =>
        \A p \in MatchedMethods :
            LET m == p[1]
                c == p[2]
                sv == ServiceOf(m).name
                n(x) == Count(allBreakingChanges, LAMBDA y : y = x)
            IN  /\ n(MethodInputChanged(m.name, m.input, c.input, sv)) = Ind(m.input # c.input)
                /\ n(MethodOutputChanged(m.name, m.output, c.output, sv)) = Ind(m.output # c.output)
                /\ n(MethodClientStreamingChanged(m.name, m.clientStreaming, c.clientStreaming, sv))
                      = Ind(m.clientStreaming # c.clientStreaming)
                /\ n(MethodServerStreamingChanged(m.name, m.serverStreaming, c.serverStreaming, sv))
                      = Ind(m.serverStreaming # c.serverStreaming)
                /\ Count(allBreakingChanges,
                         LAMBDA y : y.kind \in MethodFindingKinds /\ y.scope = sv /\ y.name = m.name)
                      = Ind(m.input # c.input) + Ind(m.output # c.output)
                        + Ind(m.clientStreaming # c.clientStreaming)
                        + Ind(m.serverStreaming # c.serverStreaming)

\* a method whose four attributes all differ gets four findings
C10_Witness ==
    /\ Compared
    /\ \E p \in MatchedMethods :
          /\ p[1].input # p[2].input /\ p[1].output # p[2].output
          /\ p[1].clientStreaming # p[2].clientStreaming
          /\ p[1].serverStreaming # p[2].serverStreaming
          /\ Count(allBreakingChanges, LAMBDA y : y.kind \in MethodFindingKinds /\ y.name = p[1].name) = 4

\* the current services that have the name of the previous service sv
SameNamedServices(sv) == {cv \in Range(currFile.services) : cv.name = sv.name}

\* the findings about the methods of service sv
AboutMethodsOf(y, sv) == y.kind \in MethodFindingKinds /\ y.scope = sv.name

\* the findings about method m of service sv
AboutMethod(y, m, sv) == AboutMethodsOf(y, sv) /\ y.name = m.name

\* C11: a previous service whose name no current service has gets exactly one
\* service-removed finding and no finding about its methods; a service whose name
\* is still there gets no service-removed finding, and each of its methods whose
\* name the current service lacks gets exactly one method-removed finding and no
\* other finding, even when a current method under another name has its signature.
C11_MatchedByNameOnly ==
    Compared =>
        \A sv \in Range(prevFile.services) :
            LET removed == Count(allBreakingChanges, LAMBDA y : y = ServiceRemoved(sv.name))
            IN  IF SameNamedServices(sv) = {}
                THEN /\ removed = 1
                     /\ Count(allBreakingChanges, LAMBDA y : AboutMethodsOf(y, sv)) = 0
                ELSE /\ removed = 0
                     /\ \A cv \in SameNamedServices(sv) : \A m \in Range(sv.methods) :
                            (\A c \in Range(cv.methods) : c.name # m.name)
                                => /\ Count(allBreakingChanges,
                                            LAMBDA y : y = MethodRemoved(m.name, sv.name)) = 1
                                   /\ Count(allBreakingChanges,
                                            LAMBDA y : AboutMethod(y, m, sv)) = 1

\* a method renamed with its signature kept is reported as removed
C11_Witness ==
    /\ Compared
    /\ \E sv \in Range(prevFile.services) : \E cv \in SameNamedServices(sv) :
          \E m \in Range(sv.methods) : \E c \in Range(cv.methods) :
              /\ c.name # m.name
              /\ [c EXCEPT !.name = m.name] = m
              /\ \A d \in Range(cv.methods) : d.name # m.name
              /\ allBreakingChanges = <<MethodRemoved(m.name, sv.name)>>

\* the messages of the previous tree that the current tree does not declare
RemovedMessages ==
    {d \in DeclsIn(prevFile.messages, <<>>) :
        d.kind = "message" /\ d \notin DeclsIn(currFile.messages, <<>>)}

\* the enums the message d of the previous tree declares itself
EnumsDeclaredBy(d) ==
    {e \in DeclsIn(prevFile.messages, <<>>) :
        e.kind = "enum" /\ SubSeq(e.path, 1, Len(e.path) - 1) = d.path}

\* C12: for every message of the previous tree that the current tree lacks and
\* every enum that message declares, the findings hold the message-removed finding
\* under the message's qualified name once and the enum-removed finding under
\* <message>.<enum> once: neither takes the place of the other.
C12_RemovedMessageAndItsEnum ==
    Compared =>
        \A d \in RemovedMessages : \A e \in EnumsDeclaredBy(d) :
            /\ Count(allBreakingChanges, LAMBDA y : y = MessageRemoved(Join(d.path))) = 1
            /\ Count(allBreakingChanges, LAMBDA y : y = EnumRemoved(Join(e.path))) = 1

\* a message nested in a message is removed with the enum it declares
C12_Witness ==
    /\ Compared
    /\ \E d \in RemovedMessages : \E e \in EnumsDeclaredBy(d) :
          /\ Len(d.path) = 2
          /\ Reported = {MessageRemoved(Join(d.path)), EnumRemoved(Join(e.path))}
          /\ Len(allBreakingChanges) = 2

\* the messages and enums a tree declares, at every depth
MessagesAndEnums(file) ==
    DeclsIn(file.messages, <<>>)
    \cup {Decl("enum", <<file.enums[i].name>>) : i \in DOMAIN file.enums}

\* one removal finding for every message, enum and service of a tree
AllRemoved(file) ==
    {RemovalFinding(d) : d \in MessagesAndEnums(file)}
    \cup {ServiceRemoved(file.services[i].name) : i \in DOMAIN file.services}

\* C13: against an empty current tree the findings are one removal finding for
\* every previous message and enum at every depth and for every previous service,
\* each once, and nothing else (no field, value or method finding); against an
\* empty previous tree there is no finding, whatever the current tree declares.
C13_EmptyTree ==
    Compared =>
        /\ currFile = EmptyFile =>
              /\ Reported = AllRemoved(prevFile)
              /\ Len(allBreakingChanges)
                    = Cardinality(MessagesAndEnums(prevFile)) + Len(prevFile.services)
        /\ prevFile = EmptyFile => allBreakingChanges = <<>>

\* a tree with a message, a message nested in it and a service, against the empty
\* tree: three removal findings
C13_Witness ==
    /\ Compared
    /\ currFile = EmptyFile
    /\ \E d \in MessagesAndEnums(prevFile) : d.kind = "message" /\ Len(d.path) = 2
    /\ prevFile.services # <<>>
    /\ Len(allBreakingChanges) = 3
    /\ Reported = AllRemoved(prevFile)

\* a tree that declares the most the bounds allow, compared as current tree with
\* the empty previous tree
C13_WitnessAdded ==
    /\ Compared
    /\ prevFile = EmptyFile
    /\ Cardinality(MessagesAndEnums(currFile)) + Len(currFile.services) = MaxDecls
    /\ allBreakingChanges = <<>>

\* the run has ended after main obtained the list of modified files
ListedAndExited == pc = "exit" /\ commitOK

\* the file of the i-th entry of modifiedProtoFiles
ModifiedFile(i) == FileAt(files, modifiedProtoFiles[i])

\* both versions of f can be retrieved and parsed
Comparable(f) == f.prev.exists /\ f.prev.parses /\ f.curr.parses

\* the errors of a pair that only the temporary file can cause
TempFileErrors ==
    {"error getting previous version: error creating temporary file",
     "error getting previous version: error writing to temporary file"}

\* the findings lists the comparison of the two versions of f can return
PossibleChanges(f) ==
    {compareTrees(f.prev.desc, f.curr.desc, msgOrder, enumOrder) :
        msgOrder \in Orders(DOMAIN MsgsByName(f.prev.desc)),
        enumOrder \in Orders(DOMAIN EnumsByName(f.prev.desc))}

Failed(i) == output[i].status = "error"

\* C14: when the run has ended, every entry of the list of modified files has its
\* report, and for every pair that failed each pair after it in the list was
\* still processed: its report is there, under its path, and if its two versions
\* can be retrieved and parsed (and its temporary file written) the report holds
\* the findings of their comparison.
C14_FailureDoesNotAbort ==
    ListedAndExited =>
        /\ Len(output) = Len(modifiedProtoFiles)
        /\ \A i \in DOMAIN output :
              Failed(i) =>
                  \A j \in (i + 1)..Len(modifiedProtoFiles) :
                      /\ j \in DOMAIN output
                      /\ output[j].file = modifiedProtoFiles[j]
                      /\ (Comparable(ModifiedFile(j)) /\ output[j].err \notin TempFileErrors)
                            => /\ ~Failed(j)
                               /\ output[j].changes \in PossibleChanges(ModifiedFile(j))

\* the first pair failed to parse, the second was compared and its finding reported
C14_Witness ==
    /\ ListedAndExited
    /\ Len(output) = 2
    /\ Failed(1)
    /\ ~ModifiedFile(1).prev.parses
    /\ output[2].status = "breaking"
    /\ output[2].changes = <<FieldRemoved("a", 1, "M")>>

\* the reports of pairs that were compared and have findings
BreakingReports == {i \in DOMAIN output : ~Failed(i) /\ output[i].changes # <<>>}

\* C15: the report of a pair that cannot be compared (a version missing or not
\* parsing, or any error returned for it) has the status "error", never "clean"
\* or "breaking", and holds no finding; and the run is flagged and ends as
\* breaking only when some pair that was compared has findings, never because of
\* a failed pair.
C15_FailedPairIsErrorWithoutFindings ==
    /\ \A i \in DOMAIN output :
          (~Comparable(ModifiedFile(i)) \/ output[i].err # "")
              => /\ output[i].status = "error"
                 /\ output[i].changes = <<>>
    /\ hasBreakingChanges => BreakingReports # {}
    /\ (ListedAndExited /\ exitCode = 1) => BreakingReports # {}

\* two pairs failed, one of them with a previous version that has what the current
\* one lacks: both are reported as errors and the run ends clean
C15_Witness ==
    /\ ListedAndExited
    /\ Len(output) = 2
    /\ Failed(1) /\ Failed(2)
    /\ \E i \in DOMAIN output :
          /\ ModifiedFile(i).prev = Parsed(WithField)
          /\ ModifiedFile(i).curr = Unparsable
          /\ output[i].err = "error parsing current proto file"
    /\ PrintedFindings = {}
    /\ exitCode = 0

\* the findings of all pairs that were compared, one list after the other
RECURSIVE AggregatedFindings(_)
AggregatedFindings(n) ==
    IF n = 0 THEN <<>>
    ELSE AggregatedFindings(n - 1) \o (IF Failed(n) THEN <<>> ELSE output[n].changes)

\* C16: once main has the list of modified files, the run ends with exit status 1
\* (breaking) exactly when the findings aggregated over the pairs that were
\* compared are not empty, and with exit status 0 (clean) otherwise.
C16_BreakingIffFindings ==
    ListedAndExited =>
        /\ exitCode \in {0, 1}
        /\ exitCode = 1 <=> AggregatedFindings(Len(output)) # <<>>

\* one pair with a finding and one without: the run ends as breaking
C16_Witness ==
    /\ ListedAndExited
    /\ Len(output) = 2
    /\ output[1].status = "clean"
    /\ output[2].status = "breaking"
    /\ Len(AggregatedFindings(2)) = 1
    /\ exitCode = 1

\* one pair without findings and one that failed: the run ends clean
C16_WitnessClean ==
    /\ ListedAndExited
    /\ Len(output) = 2
    /\ output[1].status = "clean"
    /\ Failed(2)
    /\ exitCode = 0

\* C17: the ordered list of findings is a function of the two trees: whatever
\* order the ranges over the flattened maps take, the comparison of the same pair
\* returns the list it returned.
C17_FindingsListDeterministic ==
    Compared =>
        \A msgOrder \in Orders(DOMAIN MsgsByName(prevFile)),
           enumOrder \in Orders(DOMAIN EnumsByName(prevFile)) :
              compareTrees(prevFile, currFile, msgOrder, enumOrder) = allBreakingChanges

\* the message that sits at path below the sibling messages msgs
RECURSIVE MessageAt(_, _)
MessageAt(msgs, path) ==
    LET m == CHOOSE x \in Range(msgs) : x.name = path[1]
    IN  IF Len(path) = 1 THEN m ELSE MessageAt(m.messages, Tail(path))

\* the enum that sits at path in the tree file
EnumAt(file, path) ==
    LET siblings == IF Len(path) = 1 THEN file.enums
                    ELSE MessageAt(file.messages, SubSeq(path, 1, Len(path) - 1)).enums
    IN  CHOOSE e \in Range(siblings) : e.name = path[Len(path)]

DeclaredMessages(file) == {d \in MessagesAndEnums(file) : d.kind = "message"}
DeclaredEnums(file) == {d \in MessagesAndEnums(file) : d.kind = "enum"}

\* C18: for each of the two trees, the flattened message map has exactly the
\* dot-joined paths of the messages declared at any depth as its keys, as many
\* keys as there are such messages, and under each key the message of that path;
\* the same holds for the flattened enum map and the declared enums.
C18_FlattenedMapsKeyedByPath ==
    Compared =>
        \A file \in {prevFile, currFile} :
            LET msgs == MsgsByName(file)
                enums == EnumsByName(file)
            IN  /\ DOMAIN msgs = {Join(d.path) : d \in DeclaredMessages(file)}
                /\ Cardinality(DOMAIN msgs) = Cardinality(DeclaredMessages(file))
                /\ \A d \in DeclaredMessages(file) :
                      msgs[Join(d.path)] = MessageAt(file.messages, d.path)
                /\ DOMAIN enums = {Join(d.path) : d \in DeclaredEnums(file)}
                /\ Cardinality(DOMAIN enums) = Cardinality(DeclaredEnums(file))
                /\ \A d \in DeclaredEnums(file) :
                      enums[Join(d.path)] = EnumAt(file, d.path)

\* an enum declared two messages deep is keyed "A.A.E", next to the keys "A" and
\* "A.A" of the message map
C18_Witness ==
    /\ Compared
    /\ DOMAIN EnumsByName(prevFile) = {"A.A.E"}
    /\ DOMAIN MsgsByName(prevFile) = {"A", "A.A"}
    /\ EnumsByName(prevFile)["A.A.E"] = Enum("E", StructEnumValues)
    /\ Decl("enum", <<"A", "A", "E">>) \in DeclaredEnums(prevFile)

\* the field findings compareMessages collects for the matched message k
FieldFindingsOf(k) == Range(compareFields(PrevMsg(k), CurrMsg(k)))

\* C19: the field findings of two different messages of one file are never the
\* same: no finding about the fields of one matched message equals a finding
\* about the fields of another.
C19_FieldFindingsNameTheirMessage ==
    Compared =>
        \A k1, k2 \in MatchedMessages :
            k1 # k2 => FieldFindingsOf(k1) \cap FieldFindingsOf(k2) = {}

\* C20: between the calls of compareProtoFile and after the last one, whatever
\* each call returned (findings, or an error of any of its steps), no temporary
\* file exists: neither the one of a pair already processed nor any other.
C20_NoTemporaryFileLeft ==
    /\ \A i \in DOMAIN output : TmpName(i) \notin tmpFiles
    /\ tmpFiles = {}

\* a pair whose temporary file could not be written and a pair that was compared
\* and has a finding: no temporary file is left at the end of the run
C20_Witness ==
    /\ ListedAndExited
    /\ Len(output) = 2
    /\ output[1].err = "error getting previous version: error writing to temporary file"
    /\ output[2].status = "breaking"
    /\ tmpFiles = {}

\* a pair whose previous version does not parse and a pair whose previous version
\* git does not have: no temporary file is left either
C20_WitnessErrors ==
    /\ ListedAndExited
    /\ Len(output) = 2
    /\ output[1].err = "error parsing previous proto file"
    /\ output[2].err = "error getting previous version: error getting previous version from git"
    /\ tmpFiles = {}

====
